---- MODULE Spec2Model ----
(***************************************************************************)
(* Model of tools/src/oci_client/utils/parallel.py: the bounded fan-out /  *)
(* fan-in dispatcher (run_parallel_regions, run_parallel_tasks,            *)
(* run_parallel_map) on top of a ThreadPoolExecutor.                       *)
(*                                                                         *)
(* A work unit (a task closure, or func applied to an item) has a fixed    *)
(* behaviour, its "kind":                                                  *)
(*   "ok"   returns a value,   "none" returns None,                        *)
(*   "exc"  raises an Exception,                                           *)
(*   "base" raises a BaseException that is not an Exception                *)
(*          (KeyboardInterrupt, SystemExit), which `except Exception`      *)
(*          does not catch.                                                *)
(* Values and errors are tagged with the identity of the unit that made    *)
(* them, so that an entry holding another unit's outcome is visible.       *)
(*                                                                         *)
(* Specifications:                                                         *)
(*   Spec             the three dispatch functions, every mode;            *)
(*   FairSpec         the same over units that terminate, with fair        *)
(*                    scheduling of the caller and the workers;            *)
(*   WorkerCountSpec  get_worker_count applied to bounded arguments;       *)
(*   LockSpec         run_parallel_regions over tasks that take the        *)
(*                    exclusive lock of utils/session.py oci_config_lock,  *)
(*                    with fair scheduling of the threads;                 *)
(*   SessionSpec      threads calling utils/session.py                     *)
(*                    setup_session_token for one profile;                 *)
(*   ToolSpec         one call of a mutating tool of mcp_server.py;        *)
(*   ReportSpec       one call of mcp_server.py _get_oke_version_report.   *)
(***************************************************************************)
EXTENDS Integers, Sequences, FiniteSets, TLC

\* ---------------------------------------------------------------- bounds
MaxTasks == 3
\* max_workers arguments: negative, zero, one, and up to one per task
WorkerArgs == (0 - 1)..MaxTasks
\* the items func is applied to; a list may hold an item more than once
Items == {1, 2}
\* largest item_count handed to get_worker_count (above every default)
MaxItemCount == 12

\* ------------------------------------------------------- python values
None == <<"None", 0>>
\* placeholder held by `ret` while the call has not returned; empty, so that
\* it can be compared with a returned map as well as with a returned list
NoReturn == <<>>
Val(id) == <<"val", id>>
Err(id) == <<"err", id>>
BaseErr(id) == <<"base", id>>
IndexError == <<"IndexError", 0>>
NameFuncError(id) == <<"namefn", id>>

RegionKey(j) == <<"region", j>>
GivenName(j) == <<"name", j>>
\* f"task_{i}" with the zero-based index i of position j
SyntheticName(j) == <<"task_", j - 1>>

Kinds == {"ok", "none", "exc", "base"}
NameFuncs == {"absent", "total", "failing"}

EmptyDict == [x \in {} |-> None]
Put(d, k, v) == [x \in (DOMAIN d) \cup {k} |-> IF x = k THEN v ELSE d[x]]

Min(a, b) == IF a <= b THEN a ELSE b

\* ------------------------------------------------------- result records
ParallelResult(key, success, result, error) ==
    [key |-> key, success |-> success, result |-> result, error |-> error]

\* a returned value or a raised exception
Returned(v) == [raised |-> FALSE, value |-> v]
Raised(e) == [raised |-> TRUE, value |-> e]
NotRun == [raised |-> FALSE, value |-> <<"pending", 0>>]

\* task() / func(item) for a unit of the given kind and identity
Invoke(kind, id) ==
    CASE kind = "ok" -> Returned(Val(id))
      [] kind = "none" -> Returned(None)
      [] kind = "exc" -> Raised(Err(id))
      [] OTHER -> Raised(BaseErr(id))

\* `except Exception` catches e
IsException(e) == e[1] \in {"err", "IndexError", "namefn"}

SafeExecuteSwallow(kind, id) ==
    LET r == Invoke(kind, id) IN
    IF ~r.raised THEN Returned(<<TRUE, r.value, None>>)
    ELSE IF IsException(r.value) THEN Returned(<<TRUE, None, None>>)
    ELSE r

SafeExecuteLoseError(kind, id) ==
    LET r == Invoke(kind, id) IN
    IF ~r.raised THEN Returned(<<TRUE, r.value, None>>)
    ELSE IF IsException(r.value) THEN Returned(<<FALSE, None, None>>)
    ELSE r

\* _safe_execute(task): (success, result, error), or the BaseException
SafeExecute(kind, id) ==
    LET r == Invoke(kind, id) IN
    IF ~r.raised THEN Returned(<<TRUE, r.value, None>>)
    ELSE IF IsException(r.value) THEN Returned(<<FALSE, None, r.value>>)
    ELSE r

\* ------------------------------------------------------- branch conditions
RegionsSequentialStrict(disabled, max_workers) == disabled \/ max_workers < 1

\* run_parallel_regions: `if PARALLEL_DISABLED or max_workers <= 1`
RegionsSequential(disabled, max_workers) == disabled \/ max_workers <= 1

TasksSequentialNoFlag(disabled, max_workers) == max_workers <= 1

\* run_parallel_tasks: `if PARALLEL_DISABLED or max_workers <= 1`
TasksSequential(disabled, max_workers) == disabled \/ max_workers <= 1

MapSequentialNoEmpty(disabled, max_workers, n) ==
    disabled \/ max_workers <= 1

\* run_parallel_map: `if PARALLEL_DISABLED or max_workers <= 1 or not items`
MapSequential(disabled, max_workers, n) ==
    disabled \/ max_workers <= 1 \/ n = 0

ActualWorkersAll(max_workers, n) == n

ActualWorkersOffByOne(max_workers, n) == Min(max_workers, n) - 1

\* actual_workers = min(max_workers, len(...))
ActualWorkers(max_workers, n) == Min(max_workers, n)

\* ------------------------------------------------------------- state
VARIABLES
    PARALLEL_DISABLED,  \* module flag, read from the environment at import
    call,               \* arguments of the dispatch call in progress
    pc,                 \* position of the calling thread
    i,                  \* loop index of the sequential / submit loop
    st,                 \* per position: "new", "queued", "running", "done"
    fut,                \* per position: outcome held by the future
    order,              \* positions in the order as_completed yielded them
    results,            \* results / results_dict under construction
    ret,                \* value returned by the call
    exc,                \* exception propagating out of the call
    pool,               \* "none", "open", "shutdown"
    actual_workers,     \* max_workers of the ThreadPoolExecutor
    lock,               \* position of the task holding ~/.oci/.config.lock, or 0
    wc,                 \* a get_worker_count call: its arguments and outcome
    invoked,            \* per position: how many times the unit was called
    sess,               \* callers of setup_session_token and the token state
    tool,               \* a mutating MCP tool call in progress
    report              \* a _get_oke_version_report call in progress

\* state outside the dispatcher proper
others == <<lock, wc, invoked, sess, tool, report>>

vars == <<PARALLEL_DISABLED, call, pc, i, st, fut, order, results, ret, exc,
          pool, actual_workers, lock, wc, invoked, sess, tool, report>>

\* nobody calls setup_session_token, no MCP tool call, no version report
NoSession == <<>>

NoTool == <<>>

NoReport == <<>>

\* no get_worker_count call is being made
NoWorkerCountCall ==
    [level |-> "", item_count |-> 0, override |-> None, pc |-> "none",
     out |-> NotRun]

NoCall ==
    [fn |-> "none", n |-> 0, items |-> <<>>, func |-> <<>>, max_workers |-> 0,
     fail_fast |-> FALSE, names_given |-> FALSE, task_names |-> <<>>,
     item_name_func |-> "absent"]

Init ==
    /\ PARALLEL_DISABLED \in BOOLEAN
    /\ call = NoCall
    /\ pc = "idle"
    /\ i = 0
    /\ st = <<>>
    /\ fut = <<>>
    /\ order = <<>>
    /\ results = EmptyDict
    /\ ret = NoReturn
    /\ exc = None
    /\ pool = "none"
    /\ actual_workers = 0
    /\ lock = 0
    /\ wc = NoWorkerCountCall
    /\ invoked = <<>>
    /\ sess = NoSession
    /\ tool = NoTool
    /\ report = NoReport

\* identity and behaviour of the unit at position j of call c
UnitId(c, j) == c.items[j]
UnitKind(c, j) == c.func[c.items[j]]

\* a unit occupies its thread from the moment it is entered until it ends;
\* a unit that uses the OCI config lock is "running" up to the flock call,
\* "locked" while it holds the lock and "unlocked" afterwards
InFlight == {j \in DOMAIN st : st[j] \in {"running", "locked", "unlocked"}}
Idle == pc = "idle"

\* state common to every call entry
Enter(c) ==
    /\ call' = c
    /\ st' = [j \in 1..c.n |-> "new"]
    /\ fut' = [j \in 1..c.n |-> NotRun]
    /\ order' = <<>>
    /\ exc' = None
    /\ invoked' = [j \in 1..c.n |-> 0]
    /\ UNCHANGED <<PARALLEL_DISABLED, lock, wc, sess, tool, report>>

EnterReturn(v) ==
    /\ pc' = "returned" /\ ret' = v /\ i' = 0 /\ results' = EmptyDict
    /\ pool' = "none" /\ actual_workers' = 0

EnterSequential(empty) ==
    /\ pc' = "seq" /\ ret' = NoReturn /\ i' = 1 /\ results' = empty
    /\ pool' = "none" /\ actual_workers' = 0

EnterParallel(c) ==
    /\ pc' = "submit" /\ ret' = NoReturn /\ i' = 1 /\ results' = EmptyDict
    /\ pool' = "open" /\ actual_workers' = ActualWorkers(c.max_workers, c.n)

\* run_parallel_regions(region_tasks, max_workers, fail_fast), up to the pool
CallRegions ==
    /\ Idle
    /\ \E n \in 0..MaxTasks, mw \in WorkerArgs,
          ff \in BOOLEAN :
       \E kinds \in [1..n -> Kinds] :
        LET c == [NoCall EXCEPT !.fn = "regions", !.n = n,
                     !.items = [j \in 1..n |-> j], !.func = kinds,
                     !.max_workers = mw, !.fail_fast = ff] IN
        /\ Enter(c)
        /\ IF n = 0 THEN EnterReturn(EmptyDict)
           ELSE IF RegionsSequential(PARALLEL_DISABLED, mw)
                THEN EnterSequential(EmptyDict)
                ELSE EnterParallel(c)

\* lengths of the task_names lists tried for n tasks: empty, one name
\* short, one name per task
NameLengths(n) == {0, n} \cup (IF n > 0 THEN {n - 1} ELSE {})

\* run_parallel_tasks(tasks, max_workers, task_names), up to the pool
CallTasks ==
    /\ Idle
    /\ \E n \in 0..MaxTasks, mw \in WorkerArgs,
          given \in BOOLEAN :
       \E len \in NameLengths(n), kinds \in [1..n -> Kinds] :
        LET c == [NoCall EXCEPT !.fn = "tasks", !.n = n,
                     !.items = [j \in 1..n |-> j], !.func = kinds,
                     !.max_workers = mw, !.names_given = given,
                     !.task_names = [j \in 1..len |-> GivenName(j)]] IN
        /\ given \/ len = 0
        /\ Enter(c)
        /\ IF TasksSequential(PARALLEL_DISABLED, mw)
           THEN EnterSequential(<<>>)
           ELSE IF n = 0 THEN EnterReturn(<<>>)
                ELSE EnterParallel(c)

\* run_parallel_map(func, items, max_workers, item_name_func), up to the pool
CallMap ==
    /\ Idle
    /\ \E n \in 0..MaxTasks, mw \in WorkerArgs,
          nf \in NameFuncs, func \in [Items -> Kinds] :
       \E items \in [1..n -> Items] :
        LET c == [NoCall EXCEPT !.fn = "map", !.n = n, !.items = items,
                     !.func = func, !.max_workers = mw,
                     !.item_name_func = nf] IN
        /\ Enter(c)
        /\ IF MapSequential(PARALLEL_DISABLED, mw, n)
           THEN EnterSequential(<<>>)
           ELSE EnterParallel(c)

\* ----------------------------------------------------- sequential branch
ResultKeyIgnoreNames(c, j) ==
    IF c.fn = "regions" THEN Returned(RegionKey(j))
    ELSE Returned(SyntheticName(j))

\* key of result j: region key, or
\* `task_names[i] if task_names else f"task_{i}"` (IndexError when too short)
ResultKey(c, j) ==
    IF c.fn = "regions" THEN Returned(RegionKey(j))
    ELSE IF c.names_given /\ Len(c.task_names) > 0
         THEN IF j <= Len(c.task_names) THEN Returned(c.task_names[j])
              ELSE Raised(IndexError)
         ELSE Returned(SyntheticName(j))

LoopDoneEarly(idx, n) == idx >= n

\* the sequential `for` loops are exhausted
LoopDone(idx, n) == idx > n

MapTripleNoError(item, r) ==
    IF r.raised THEN <<item, None, None>> ELSE <<item, r.value, None>>

\* run_parallel_map: (item, result, None) or (item, None, e)
MapTriple(item, r) ==
    IF r.raised THEN <<item, None, r.value>> ELSE <<item, r.value, None>>

\* the calling thread leaves the call with exception e
Propagate(e) ==
    /\ pc' = "raised" /\ exc' = e
    /\ UNCHANGED <<results, ret>>

\* start of one iteration of a sequential loop: the unit is entered on the
\* calling thread (run_parallel_tasks first looks up the name)
SeqStart ==
    /\ pc = "seq" /\ ~LoopDone(i, call.n) /\ st[i] = "new"
    /\ LET k == ResultKey(call, i) IN
       IF call.fn = "tasks" /\ k.raised
       THEN /\ Propagate(k.value) /\ UNCHANGED <<st, invoked>>
       ELSE /\ st' = [st EXCEPT ![i] = "running"]
            /\ invoked' = [invoked EXCEPT ![i] = @ + 1]
            /\ UNCHANGED <<pc, exc, results, ret>>
    /\ UNCHANGED <<lock, wc, sess, tool, report>>
    /\ UNCHANGED <<PARALLEL_DISABLED, call, i, fut, order, pool, actual_workers>>

\* end of one iteration: the unit returns or raises and the entry is stored
\* (_run_sequential, and the sequential branches of tasks and map)
SeqFinish ==
    /\ pc = "seq" /\ ~LoopDone(i, call.n) /\ st[i] = "running"
    /\ st' = [st EXCEPT ![i] = "done"]
    /\ i' = i + 1
    /\ IF call.fn = "map"
       THEN LET r == Invoke(UnitKind(call, i), UnitId(call, i)) IN
            /\ fut' = [fut EXCEPT ![i] = r]
            /\ IF r.raised /\ ~IsException(r.value)
               THEN Propagate(r.value)
               ELSE /\ results' = Append(results, MapTriple(call.items[i], r))
                    /\ UNCHANGED <<pc, exc, ret>>
       ELSE LET r == SafeExecute(UnitKind(call, i), UnitId(call, i))
                k == ResultKey(call, i).value IN
            /\ fut' = [fut EXCEPT ![i] = r]
            /\ IF r.raised
               THEN Propagate(r.value)
               ELSE LET e == ParallelResult(k, r.value[1], r.value[2], r.value[3])
                    IN /\ results' = IF call.fn = "regions"
                                     THEN Put(results, k, e)
                                     ELSE Append(results, e)
                       /\ UNCHANGED <<pc, exc, ret>>
    /\ UNCHANGED others
    /\ UNCHANGED <<PARALLEL_DISABLED, call, order, pool, actual_workers>>

\* `return results` after the sequential loop
SeqReturn ==
    /\ pc = "seq" /\ LoopDone(i, call.n)
    /\ pc' = "returned" /\ ret' = results
    /\ UNCHANGED others
    /\ UNCHANGED <<PARALLEL_DISABLED, call, i, st, fut, order, results, exc,
                   pool, actual_workers>>

\* ------------------------------------------------------- parallel branch
AllSubmitted == \A j \in 1..call.n : st[j] # "new"
Queued == {j \in 1..call.n : st[j] = "queued"}
Collected == {order[k] : k \in 1..Len(order)}

\* executor.submit(...) of the unit at position i, in input order; the
\* dict comprehension ends after the last one and as_completed begins
Submit ==
    /\ pc = "submit" /\ i <= call.n
    /\ st' = [st EXCEPT ![i] = "queued"]
    /\ i' = i + 1
    /\ pc' = IF i = call.n THEN "collect" ELSE "submit"
    /\ UNCHANGED others
    /\ UNCHANGED <<PARALLEL_DISABLED, call, fut, order, results, ret, exc,
                   pool, actual_workers>>

\* a worker thread of the pool takes the oldest queued work item; the pool
\* has at most actual_workers threads, each running one item at a time.
\* Queued items are still taken while the with-block waits in shutdown.
WorkerStart(j) ==
    /\ pool = "open" /\ st[j] = "queued"
    /\ \A k \in Queued : j <= k
    /\ Cardinality(InFlight) < actual_workers
    /\ st' = [st EXCEPT ![j] = "running"]
    /\ invoked' = [invoked EXCEPT ![j] = @ + 1]
    /\ UNCHANGED <<lock, wc, sess, tool, report>>
    /\ UNCHANGED <<PARALLEL_DISABLED, call, pc, i, fut, order, results, ret,
                   exc, pool, actual_workers>>

\* the work item ends: the future holds what _safe_execute(task) returned
\* (regions, tasks) or what func(item) returned or raised (map)
WorkerFinish(j) ==
    /\ pool = "open" /\ st[j] = "running"
    /\ st' = [st EXCEPT ![j] = "done"]
    /\ fut' = [fut EXCEPT ![j] =
                 IF call.fn = "map"
                 THEN Invoke(UnitKind(call, j), UnitId(call, j))
                 ELSE SafeExecute(UnitKind(call, j), UnitId(call, j))]
    /\ UNCHANGED others
    /\ UNCHANGED <<PARALLEL_DISABLED, call, pc, i, order, results, ret, exc,
                   pool, actual_workers>>

AsCompletedInInputOrder(j, s, coll) ==
    /\ s[j] = "done" /\ j \notin coll
    /\ \A k \in 1..(j - 1) : k \in coll

\* as_completed(future_to_...) may yield the future of position j next: it
\* is finished and was not yielded before, whatever its place in the input
AsCompleted(j, s, coll) == s[j] = "done" /\ j \notin coll

\* as_completed yields the finished future of position j
Yield(j) ==
    /\ pc = "collect" /\ AsCompleted(j, st, Collected)
    /\ order' = Append(order, j)
    /\ UNCHANGED others
    /\ UNCHANGED <<PARALLEL_DISABLED, call, i, st, fut, pool, actual_workers>>

\* an exception leaves the for loop; the with-block still has to exit
Unwind(e) == pc' = "unwind" /\ exc' = e /\ UNCHANGED ret

FailFastRaiseWrapped(error) == Err(0)

\* `raise error` followed by the bare `raise` of the handler: the exception
\* leaving the loop is the error object taken from the future's tuple
FailFastRaise(error) == error

ShouldRaiseWhateverOutcome(success, fail_fast) == fail_fast

\* `if success: ... else: ... if fail_fast: raise error`
ShouldRaise(success, fail_fast) == ~success /\ fail_fast

FutureToRegionByCompletion(j, ord) == RegionKey(Len(ord) + 1)

\* `region = future_to_region[future]` for the future submitted for
\* position j: the key its task was submitted under
FutureToRegion(j, ord) == RegionKey(j)

\* body of the collection loop of run_parallel_regions
CollectRegion(j) ==
    /\ call.fn = "regions" /\ Yield(j)
    /\ LET region == FutureToRegion(j, order)
           r == fut[j] IN
       IF r.raised
       THEN IF IsException(r.value)
            THEN /\ results' = Put(results, region,
                                   ParallelResult(region, FALSE, None, r.value))
                 /\ IF call.fail_fast THEN Unwind(r.value)
                    ELSE UNCHANGED <<pc, exc, ret>>
            ELSE Unwind(r.value) /\ UNCHANGED results
       ELSE LET success == r.value[1]
                error == r.value[3] IN
            IF ShouldRaise(success, call.fail_fast)
            THEN \* `raise error` is caught by `except Exception`, which
                 \* stores the entry again and re-raises
                 /\ results' = Put(results, region,
                                   ParallelResult(region, FALSE, None, error))
                 /\ Unwind(FailFastRaise(error))
            ELSE /\ results' = Put(results, region,
                       ParallelResult(region, success, r.value[2], error))
                 /\ UNCHANGED <<pc, exc, ret>>

TaskSlotByCompletion(idx, ord) == Len(ord) + 1

\* `results_dict[idx] = ...` of run_parallel_tasks
TaskSlot(idx, ord) == idx

\* body of the collection loop of run_parallel_tasks
CollectTask(j) ==
    /\ call.fn = "tasks" /\ Yield(j)
    /\ LET name == ResultKey(call, j)
           r == fut[j]
           slot == TaskSlot(j, order) IN
       IF name.raised
       THEN Unwind(name.value) /\ UNCHANGED results
       ELSE IF r.raised
            THEN IF IsException(r.value)
                 THEN /\ results' = Put(results, slot,
                            ParallelResult(name.value, FALSE, None, r.value))
                      /\ UNCHANGED <<pc, exc, ret>>
                 ELSE Unwind(r.value) /\ UNCHANGED results
            ELSE /\ results' = Put(results, slot,
                       ParallelResult(name.value, r.value[1], r.value[2],
                                      r.value[3]))
                 /\ UNCHANGED <<pc, exc, ret>>

MapSlotByCompletion(idx, ord) == Len(ord) + 1

\* `results_dict[idx] = ...` of run_parallel_map
MapSlot(idx, ord) == idx

\* item_name_func(item) if item_name_func else str(idx)
ItemName(c, j) ==
    IF c.item_name_func = "failing" THEN Raised(NameFuncError(c.items[j]))
    ELSE IF c.item_name_func = "total" THEN Returned(GivenName(c.items[j]))
    ELSE Returned(SyntheticName(j))

\* body of the collection loop of run_parallel_map
CollectMap(j) ==
    /\ call.fn = "map" /\ Yield(j)
    /\ LET item == call.items[j]
           r == fut[j]
           slot == MapSlot(j, order) IN
       IF ~r.raised
       THEN /\ results' = Put(results, slot, MapTriple(item, r))
            /\ UNCHANGED <<pc, exc, ret>>
       ELSE IF ~IsException(r.value)
            THEN Unwind(r.value) /\ UNCHANGED results
            ELSE LET item_name == ItemName(call, j) IN
                 IF item_name.raised
                 THEN Unwind(item_name.value) /\ UNCHANGED results
                 ELSE /\ results' = Put(results, slot, MapTriple(item, r))
                      /\ UNCHANGED <<pc, exc, ret>>

OrderedReturnReversed(d, n) == [k \in 1..n |-> d[n + 1 - k]]

\* `[results_dict[i] for i in range(len(...))]`
OrderedReturn(d, n) == [k \in 1..n |-> d[k]]

\* what the sequential branch of the called function returns for call c,
\* as one fold over the input in input order
RECURSIVE SeqFold(_, _, _)
SeqFold(c, k, acc) ==
    IF k > c.n THEN acc
    ELSE IF c.fn = "map"
         THEN SeqFold(c, k + 1,
                  Append(acc, MapTriple(c.items[k],
                                        Invoke(UnitKind(c, k), UnitId(c, k)))))
         ELSE LET r == SafeExecute(UnitKind(c, k), UnitId(c, k))
                  key == ResultKey(c, k).value
                  e == ParallelResult(key, r.value[1], r.value[2], r.value[3])
              IN SeqFold(c, k + 1, IF c.fn = "regions" THEN Put(acc, key, e)
                                   ELSE Append(acc, e))

SeqResult(c) == SeqFold(c, 1, IF c.fn = "regions" THEN EmptyDict ELSE <<>>)

PoolLeftOpen == "open"

\* state of the executor once its with-block has been left
PoolAfterExit == "shutdown"

ShutdownNoWait(s, n) == TRUE

\* ThreadPoolExecutor.__exit__ is shutdown(wait=True): it returns when every
\* submitted work item has run (none is cancelled)
ShutdownWaited(s, n) == \A j \in 1..n : s[j] = "done"

\* the collection loop is exhausted, the with-block exits (every future is
\* done, so shutdown(wait=True) returns at once) and the call returns
PoolExitReturn ==
    /\ pc = "collect" /\ Len(order) = call.n
    /\ ShutdownWaited(st, call.n)
    /\ pool' = PoolAfterExit
    /\ pc' = "returned"
    /\ ret' = IF call.fn = "regions" THEN results
              ELSE OrderedReturn(results, call.n)
    /\ UNCHANGED others
    /\ UNCHANGED <<PARALLEL_DISABLED, call, i, st, fut, order, results, exc,
                   actual_workers>>

\* the with-block exits on an exception: shutdown(wait=True) returns once
\* every submitted work item has run, then the exception reaches the caller
PoolExitRaise ==
    /\ pc = "unwind" /\ ShutdownWaited(st, call.n)
    /\ pool' = PoolAfterExit
    /\ pc' = "raised"
    /\ UNCHANGED others
    /\ UNCHANGED <<PARALLEL_DISABLED, call, i, st, fut, order, results, ret,
                   exc, actual_workers>>

\* the caller consumes the returned value (or the exception) and goes on to
\* its next dispatch call; nothing of the finished call is kept
Resume ==
    /\ pc \in {"returned", "raised"}
    /\ call' = NoCall /\ pc' = "idle" /\ i' = 0 /\ st' = <<>> /\ fut' = <<>>
    /\ order' = <<>> /\ results' = EmptyDict /\ ret' = NoReturn /\ exc' = None
    /\ pool' = "none" /\ actual_workers' = 0
    /\ invoked' = <<>>
    /\ UNCHANGED <<PARALLEL_DISABLED, lock, wc, sess, tool, report>>

\* --------------------------------------------------- worker-count policy
DEFAULT_REGION_WORKERS == 4
DEFAULT_CLUSTER_WORKERS == 6
DEFAULT_INSTANCE_WORKERS == 10

\* a python int
PyInt(k) == <<"int", k>>
KeyError == <<"KeyError", 0>>

\* level arguments: the three documented levels and two others
Levels == {"region", "cluster", "instance", "unknown", ""}
ItemCounts == 0..MaxItemCount
\* override arguments: None, or an int from below zero to above every count
Overrides == {None} \cup {PyInt(k) : k \in (0 - 1)..(MaxItemCount + 1)}

DefaultsGetSwapped(level) ==
    CASE level = "region" -> Returned(DEFAULT_CLUSTER_WORKERS)
      [] level = "cluster" -> Returned(DEFAULT_REGION_WORKERS)
      [] level = "instance" -> Returned(DEFAULT_INSTANCE_WORKERS)
      [] OTHER -> Returned(DEFAULT_INSTANCE_WORKERS)

DefaultsGetStrict(level) ==
    CASE level = "region" -> Returned(DEFAULT_REGION_WORKERS)
      [] level = "cluster" -> Returned(DEFAULT_CLUSTER_WORKERS)
      [] level = "instance" -> Returned(DEFAULT_INSTANCE_WORKERS)
      [] OTHER -> Raised(KeyError)

\* defaults.get(level, DEFAULT_INSTANCE_WORKERS) over the defaults dict
DefaultsGet(level) ==
    CASE level = "region" -> Returned(DEFAULT_REGION_WORKERS)
      [] level = "cluster" -> Returned(DEFAULT_CLUSTER_WORKERS)
      [] level = "instance" -> Returned(DEFAULT_INSTANCE_WORKERS)
      [] OTHER -> Returned(DEFAULT_INSTANCE_WORKERS)

OverrideBranchUnclamped(override, item_count) == override

\* `return min(override, item_count)`
OverrideBranch(override, item_count) == Min(override, item_count)

\* get_worker_count(level, item_count, override)
get_worker_count(level, item_count, override) ==
    IF override # None
    THEN Returned(PyInt(OverrideBranch(override[2], item_count)))
    ELSE LET max_workers == DefaultsGet(level) IN
         IF max_workers.raised THEN max_workers
         ELSE Returned(PyInt(Min(max_workers.value, item_count)))

\* a caller is about to call get_worker_count with some arguments
WorkerCountInit ==
    /\ PARALLEL_DISABLED \in BOOLEAN
    /\ call = NoCall /\ pc = "idle" /\ i = 0 /\ st = <<>> /\ fut = <<>>
    /\ order = <<>> /\ results = EmptyDict /\ ret = NoReturn /\ exc = None
    /\ pool = "none" /\ actual_workers = 0 /\ lock = 0 /\ invoked = <<>>
    /\ sess = NoSession /\ tool = NoTool /\ report = NoReport
    /\ \E level \in Levels, item_count \in ItemCounts, override \in Overrides :
         wc = [level |-> level, item_count |-> item_count,
               override |-> override, pc |-> "call", out |-> NotRun]

\* the call is made and returns (or raises)
GetWorkerCount ==
    /\ wc.pc = "call"
    /\ wc' = [wc EXCEPT !.pc = "done",
                        !.out = get_worker_count(wc.level, wc.item_count,
                                                 wc.override)]
    /\ UNCHANGED <<PARALLEL_DISABLED, call, pc, i, st, fut, order, results,
                   ret, exc, pool, actual_workers, lock, invoked,
                   sess, tool, report>>

WorkerCountNext == GetWorkerCount

WorkerCountSpec == WorkerCountInit /\ [][WorkerCountNext]_vars

\* ------------------------------------- tasks that take the OCI config lock
\* main() of check_image_updates dispatches one task per region with
\* run_parallel_regions; each task builds its client through
\* setup_session_token, which does its work inside `with oci_config_lock()`.

DispatcherHoldsWhileOpen(p) == p = "open"

\* the lock the dispatcher itself holds while its pool is in state p: none,
\* run_parallel_regions never touches the lock file
DispatcherHolds(p) == FALSE

\* fcntl.flock(f, LOCK_EX) returns: nobody else holds the lock
LockAcquire(j) ==
    /\ pool = "open" /\ st[j] = "running"
    /\ lock = 0 /\ ~DispatcherHolds(pool)
    /\ lock' = j
    /\ st' = [st EXCEPT ![j] = "locked"]
    /\ UNCHANGED <<PARALLEL_DISABLED, call, pc, i, fut, order, results, ret,
                   exc, pool, actual_workers, wc, invoked, sess, tool,
                   report>>

\* the with-block of oci_config_lock is left, by return or by exception:
\* `finally: fcntl.flock(f, LOCK_UN)`
LockRelease(j) ==
    /\ pool = "open" /\ st[j] = "locked" /\ lock = j
    /\ lock' = 0
    /\ st' = [st EXCEPT ![j] = "unlocked"]
    /\ UNCHANGED <<PARALLEL_DISABLED, call, pc, i, fut, order, results, ret,
                   exc, pool, actual_workers, wc, invoked, sess, tool,
                   report>>

\* the rest of the task runs and the work item ends
LockedTaskFinish(j) ==
    /\ pool = "open" /\ st[j] = "unlocked"
    /\ st' = [st EXCEPT ![j] = "done"]
    /\ fut' = [fut EXCEPT ![j] = SafeExecute(UnitKind(call, j), UnitId(call, j))]
    /\ UNCHANGED <<PARALLEL_DISABLED, call, pc, i, order, results, ret, exc,
                   pool, actual_workers, lock, wc, invoked, sess, tool,
                   report>>

\* what a region task does once it is through the lock: it returns its rows
\* or raises
LockTaskKinds == {"ok", "exc"}

\* run_parallel_regions(region_tasks, max_workers, fail_fast) over tasks that
\* take the lock, with more than one worker: the pool branch
CallRegionsParallel ==
    /\ Idle
    /\ \E n \in 1..MaxTasks, mw \in 2..MaxTasks, ff \in BOOLEAN :
       \E kinds \in [1..n -> LockTaskKinds] :
        LET c == [NoCall EXCEPT !.fn = "regions", !.n = n,
                     !.items = [j \in 1..n |-> j], !.func = kinds,
                     !.max_workers = mw, !.fail_fast = ff] IN
        /\ ~RegionsSequential(PARALLEL_DISABLED, mw)
        /\ Enter(c)
        /\ EnterParallel(c)

LockNext ==
    \/ Resume
    \/ CallRegionsParallel
    \/ Submit
    \/ \E j \in 1..call.n : WorkerStart(j)
    \/ \E j \in 1..call.n : LockAcquire(j)
    \/ \E j \in 1..call.n : LockRelease(j)
    \/ \E j \in 1..call.n : LockedTaskFinish(j)
    \/ \E j \in 1..call.n : CollectRegion(j)
    \/ PoolExitReturn
    \/ PoolExitRaise

\* the calling thread and the worker threads are scheduled by the operating
\* system: a step of the call that stays possible is eventually taken
LockFairness ==
    /\ WF_vars(Submit)
    /\ WF_vars(\E j \in 1..call.n : WorkerStart(j))
    /\ WF_vars(\E j \in 1..call.n : LockAcquire(j))
    /\ WF_vars(\E j \in 1..call.n : LockRelease(j))
    /\ WF_vars(\E j \in 1..call.n : LockedTaskFinish(j))
    /\ WF_vars(\E j \in 1..call.n : CollectRegion(j))
    /\ WF_vars(PoolExitReturn)
    /\ WF_vars(PoolExitRaise)

LockSpec == Init /\ [][LockNext]_vars /\ LockFairness

\* ------------------------------------------------ fair scheduling
\* Units for the termination property: a unit returns, raises an Exception
\* or raises a BaseException (a unit returning None takes the same path
\* through the dispatcher as one returning a value).
FairKinds == {"ok", "exc", "base"}
OrdinaryUnits(c) == \A x \in DOMAIN c.func : c.func[x] \in FairKinds

FairCallRegions == CallRegions /\ OrdinaryUnits(call')
FairCallTasks == CallTasks /\ OrdinaryUnits(call')
FairCallMap == CallMap /\ OrdinaryUnits(call')

FairNext ==
    \/ Resume
    \/ FairCallRegions
    \/ FairCallTasks
    \/ FairCallMap
    \/ SeqStart
    \/ SeqFinish
    \/ SeqReturn
    \/ Submit
    \/ \E j \in 1..call.n : WorkerStart(j)
    \/ \E j \in 1..call.n : WorkerFinish(j)
    \/ \E j \in 1..call.n : CollectRegion(j)
    \/ \E j \in 1..call.n : CollectTask(j)
    \/ \E j \in 1..call.n : CollectMap(j)
    \/ PoolExitReturn
    \/ PoolExitRaise

\* the calling thread keeps running its loops
CallerFairness ==
    /\ WF_vars(SeqStart)
    /\ WF_vars(SeqReturn)
    /\ WF_vars(Submit)
    /\ WF_vars(\E j \in 1..call.n : CollectRegion(j))
    /\ WF_vars(\E j \in 1..call.n : CollectTask(j))
    /\ WF_vars(\E j \in 1..call.n : CollectMap(j))
    /\ WF_vars(PoolExitReturn)
    /\ WF_vars(PoolExitRaise)

\* an idle worker thread of the pool takes the next queued work item
WorkerFairness == WF_vars(\E j \in 1..call.n : WorkerStart(j))

\* every supplied task terminates: a unit that was entered ends
TasksTerminate ==
    /\ WF_vars(SeqFinish)
    /\ WF_vars(\E j \in 1..call.n : WorkerFinish(j))

FairSpec ==
    Init /\ [][FairNext]_vars
         /\ CallerFairness /\ WorkerFairness /\ TasksTerminate

Next ==
    \/ Resume
    \/ CallRegions
    \/ CallTasks
    \/ CallMap
    \/ SeqStart
    \/ SeqFinish
    \/ SeqReturn
    \/ Submit
    \/ \E j \in 1..call.n : WorkerStart(j)
    \/ \E j \in 1..call.n : WorkerFinish(j)
    \/ \E j \in 1..call.n : CollectRegion(j)
    \/ \E j \in 1..call.n : CollectTask(j)
    \/ \E j \in 1..call.n : CollectMap(j)
    \/ PoolExitReturn
    \/ PoolExitRaise

Spec == Init /\ [][Next]_vars

\* ------------------------------------------ session tokens (session.py)
\* Threads call setup_session_token for the same project, stage and region,
\* hence for the same profile.  A thread is idle, then "acquire" (blocked in
\* flock), "locked" (inside the with-block, before the validity check),
\* "create" (about to call create_oci_session_token), "exit" (leaving the
\* with-block) and "done".

\* number of threads that call setup_session_token
MaxCallers == 3

Callers == 1..MaxCallers

\* create_profile_for_region(project_name, stage, region, realm)
TargetProfile == <<"project_stage_realm_region", 0>>

\* the fallback profile name
DEFAULT == <<"DEFAULT", 0>>

max_age_seconds == 50 * 60

\* ages, in seconds, of the token file at the time of the calls
Ages == {0, max_age_seconds, max_age_seconds + 1}

\* what ~/.oci holds for the profile: no usable entry (no config file, no
\* profile, no security_token_file, no token file), or a token file of some
\* age, with a matching region or not, that the identity service accepts
\* or not
NoToken == [exists |-> FALSE, age |-> 0, region_ok |-> FALSE, api_ok |-> FALSE]

Token(age, region_ok, api_ok) ==
    [exists |-> TRUE, age |-> age, region_ok |-> region_ok, api_ok |-> api_ok]

\* the tokens the calls may find: none, a sound one of every age, a new one
\* of another region, a new one that the service rejects
Tokens ==
    {NoToken} \cup {Token(age, TRUE, TRUE) : age \in Ages}
              \cup {Token(0, FALSE, TRUE), Token(0, TRUE, FALSE)}

TokenTooOldAtExpiry(age) == age > 60 * 60

\* token_age_seconds > max_age_seconds
TokenTooOld(age) == age > max_age_seconds

\* check_session_token_validity(profile_name, expected_region): True only
\* after every check passed and the get_tenancy call went through
check_session_token_validity(sdk, token) ==
    /\ sdk
    /\ token.exists
    /\ ~TokenTooOld(token.age)
    /\ token.region_ok
    /\ token.api_ok

\* get_session_token_info(profile_name) is a dict (truthy), not None
get_session_token_info(sdk, token) == sdk /\ token.exists

ReuseNever(valid, token_info) == FALSE

\* `if check_session_token_validity(...): ... if token_info: return`
Reuse(valid, token_info) == valid /\ token_info

\* what a call of create_oci_session_token does: it returns True and leaves
\* a token that validates, returns True and leaves one that does not,
\* returns False, raises an Exception, or is interrupted (KeyboardInterrupt
\* during the browser login, a BaseException)
CreateOutcomes == {"valid", "unusable", "false", "raise", "interrupt"}

\* the token after a creation attempt
TokenAfter(outcome, token) ==
    CASE outcome = "valid" ->
           Token(0, TRUE, TRUE)
      [] outcome = "unusable" ->
           Token(0, TRUE, FALSE)
      [] OTHER -> token

SetupReturnIgnoresFalse(outcome) ==
    CASE outcome \in {"valid", "unusable", "false"} -> Returned(TargetProfile)
      [] outcome = "raise" -> Returned(DEFAULT)
      [] outcome = "interrupt" -> Raised(BaseErr(0))

\* the try block around create_oci_session_token: what setup_session_token
\* does with the outcome
SetupReturn(outcome) ==
    CASE outcome \in {"valid", "unusable"} -> Returned(TargetProfile)
      [] outcome = "false" -> Returned(DEFAULT)
      [] outcome = "raise" -> Returned(DEFAULT)
      [] outcome = "interrupt" -> Raised(BaseErr(0))

FlockGrantsShared(holders) == TRUE

\* fcntl.flock(f, fcntl.LOCK_EX) on a file opened by this call returns only
\* when no other open file holds the lock
FlockGrants(holders) == holders = {}

ReleasedOnReturnOnly(how) == ~how.raised

\* `finally: fcntl.flock(f, fcntl.LOCK_UN)`: whether the with-block is left
\* by a return or by an exception
ReleasedOnExit(how) == TRUE

SessionInit ==
    /\ PARALLEL_DISABLED \in BOOLEAN
    /\ call = NoCall /\ pc = "idle" /\ i = 0 /\ st = <<>> /\ fut = <<>>
    /\ order = <<>> /\ results = EmptyDict /\ ret = NoReturn /\ exc = None
    /\ pool = "none" /\ actual_workers = 0 /\ lock = 0 /\ invoked = <<>>
    /\ wc = NoWorkerCountCall /\ tool = NoTool /\ report = NoReport
    /\ \E sdk \in BOOLEAN, token \in Tokens :
         sess = [sdk |-> sdk, token |-> token,
                 pc |-> [t \in Callers |-> "idle"],
                 holders |-> {},
                 checked |-> [t \in Callers |-> NoToken],
                 outcome |-> [t \in Callers |-> "none"],
                 out |-> [t \in Callers |-> NotRun],
                 creates |-> 0]

SessionFrame ==
    UNCHANGED <<PARALLEL_DISABLED, call, pc, i, st, fut, order, results, ret,
                exc, pool, actual_workers, lock, wc, invoked, tool, report>>

\* a thread calls setup_session_token and reaches `with oci_config_lock()`
SessionCall(t) ==
    /\ sess.pc[t] = "idle"
    /\ sess' = [sess EXCEPT !.pc[t] = "acquire"]
    /\ SessionFrame

\* flock returns
Flock(t) ==
    /\ sess.pc[t] = "acquire"
    /\ FlockGrants(sess.holders)
    /\ sess' = [sess EXCEPT !.pc[t] = "locked", !.holders = @ \cup {t}]
    /\ SessionFrame

\* inside the lock: the validity check, then reuse or go on to create
CheckToken(t) ==
    /\ sess.pc[t] = "locked"
    /\ LET valid == check_session_token_validity(sess.sdk, sess.token)
           token_info == get_session_token_info(sess.sdk, sess.token) IN
       IF Reuse(valid, token_info)
       THEN sess' = [sess EXCEPT !.pc[t] = "exit",
                                 !.checked[t] = sess.token,
                                 !.outcome[t] = "reuse",
                                 !.out[t] = Returned(TargetProfile)]
       ELSE sess' = [sess EXCEPT !.pc[t] = "create",
                                 !.checked[t] = sess.token]
    /\ SessionFrame

\* create_oci_session_token is called and ends
CreateToken(t) ==
    /\ sess.pc[t] = "create"
    /\ \E outcome \in CreateOutcomes :
         sess' = [sess EXCEPT !.pc[t] = "exit",
                              !.token = TokenAfter(outcome, @),
                              !.outcome[t] = outcome,
                              !.out[t] = SetupReturn(outcome),
                              !.creates = @ + 1]
    /\ SessionFrame

\* the with-block is left and setup_session_token ends
Unlock(t) ==
    /\ sess.pc[t] = "exit"
    /\ sess' = [sess EXCEPT
                  !.pc[t] = "done",
                  !.holders = IF ReleasedOnExit(sess.out[t])
                              THEN @ \ {t} ELSE @]
    /\ SessionFrame

SessionNext ==
    \/ \E t \in Callers : SessionCall(t)
    \/ \E t \in Callers : Flock(t)
    \/ \E t \in Callers : CheckToken(t)
    \/ \E t \in Callers : CreateToken(t)
    \/ \E t \in Callers : Unlock(t)

\* every thread is scheduled, and a creation attempt ends
SessionFairness ==
    /\ \A t \in Callers : WF_vars(Flock(t))
    /\ WF_vars(\E t \in Callers : CheckToken(t))
    /\ WF_vars(\E t \in Callers : CreateToken(t))
    /\ WF_vars(\E t \in Callers : Unlock(t))

SessionSpec == SessionInit /\ [][SessionNext]_vars /\ SessionFairness

\* --------------------------------------- mutating MCP tools (mcp_server.py)
\* _upgrade_oke_cluster, _upgrade_node_pool and _cycle_node_pool: one call,
\* from its arguments to the text it returns.  `mutations` lists the calls
\* made to the mutating client methods.

ToolNames == {"upgrade_oke_cluster", "upgrade_node_pool", "cycle_node_pool"}

\* the client method that changes the cluster or the node pool
MutatingCall(name) ==
    CASE name = "upgrade_oke_cluster" -> "upgrade_oke_cluster"
      [] name = "upgrade_node_pool" -> "upgrade_oke_node_pool"
      [] name = "cycle_node_pool" -> "update_node_pool"

\* Kubernetes versions "v1.27.9", "v1.27.10", "v1.27.11", each written as
\* the digits that follow the common prefix "v1.27."
Versions == {<<9>>, <<1, 0>>, <<1, 1>>}

\* a < b for two Python strings: the first differing character decides, a
\* proper prefix is smaller
RECURSIVE PyStrLess(_, _)
PyStrLess(a, b) ==
    IF a = <<>> THEN b # <<>>
    ELSE IF b = <<>> THEN FALSE
    ELSE IF Head(a) # Head(b) THEN Head(a) < Head(b)
    ELSE PyStrLess(Tail(a), Tail(b))

\* max(cluster.available_upgrades), a list of str
PyMax(S) == CHOOSE v \in S : \A w \in S : w = v \/ PyStrLess(w, v)

\* arguments.get("target_version"): absent (None), the empty string, or a
\* version
TargetArgs ==
    {[given |-> FALSE, text |-> <<>>], [given |-> TRUE, text |-> <<>>]}
        \cup {[given |-> TRUE, text |-> v] : v \in Versions}

\* `not target_version`
NoTarget(target_version) == ~target_version.given \/ target_version.text = <<>>

\* arguments.get("dry_run", False)
DryRunArgs == {"absent", "true", "false"}

DryRunNever(arg) == FALSE

\* `if dry_run:`
DryRun(arg) == arg = "true"

TargetUnchecked(target_version, available_upgrades) == TRUE

\* target_version in cluster.available_upgrades
TargetAvailable(target_version, available_upgrades) ==
    target_version \in available_upgrades

\* a call of one of the tools: its arguments, the cluster's
\* available_upgrades, and which of the calls it makes will fail
ToolInit ==
    /\ PARALLEL_DISABLED \in BOOLEAN
    /\ call = NoCall /\ pc = "idle" /\ i = 0 /\ st = <<>> /\ fut = <<>>
    /\ order = <<>> /\ results = EmptyDict /\ ret = NoReturn /\ exc = None
    /\ pool = "none" /\ actual_workers = 0 /\ lock = 0 /\ invoked = <<>>
    /\ wc = NoWorkerCountCall /\ sess = NoSession /\ report = NoReport
    /\ \E name \in ToolNames, dry_run \in DryRunArgs,
          target_version \in TargetArgs,
          available_upgrades \in SUBSET Versions,
          client_error \in BOOLEAN, read_fails \in BOOLEAN,
          write_fails \in BOOLEAN :
         tool = [name |-> name, dry_run |-> dry_run,
                 target_version |-> target_version,
                 available_upgrades |-> available_upgrades,
                 client_error |-> client_error, read_fails |-> read_fails,
                 write_fails |-> write_fails,
                 pc |-> "get_client", status |-> "none", target |-> <<>>,
                 mutations |-> <<>>]

ToolFrame ==
    UNCHANGED <<PARALLEL_DISABLED, call, pc, i, st, fut, order, results, ret,
                exc, pool, actual_workers, lock, wc, invoked, sess, report>>

\* the call ends and returns its text
ToolReturn(status) == [tool EXCEPT !.pc = "done", !.status = status]

\* the arguments are read (arguments["target_version"] of _upgrade_node_pool
\* raises KeyError when absent, which call_tool turns into an error text),
\* then client, error = _get_client(...); `if error: return`
ToolGetClient ==
    /\ tool.pc = "get_client"
    /\ tool' = IF /\ tool.name = "upgrade_node_pool"
                  /\ ~tool.target_version.given
               THEN ToolReturn("error_text")
               ELSE IF tool.client_error THEN ToolReturn("error_text")
               ELSE [tool EXCEPT !.pc = "body"]
    /\ ToolFrame

\* _upgrade_oke_cluster, from get_oke_cluster to the dry-run return
UpgradeClusterDecide ==
    /\ tool.pc = "body" /\ tool.name = "upgrade_oke_cluster"
    /\ tool' =
         IF tool.read_fails THEN ToolReturn("error_text")
         ELSE IF /\ NoTarget(tool.target_version)
                 /\ tool.available_upgrades = {}
         THEN ToolReturn("no_upgrade_needed")
         ELSE LET target_version ==
                      IF NoTarget(tool.target_version)
                      THEN PyMax(tool.available_upgrades)
                      ELSE tool.target_version.text IN
              IF ~TargetAvailable(target_version, tool.available_upgrades)
              THEN ToolReturn("error")
              ELSE IF DryRun(tool.dry_run)
              THEN [ToolReturn("dry_run") EXCEPT !.target = target_version]
              ELSE [tool EXCEPT !.pc = "mutate", !.target = target_version]
    /\ ToolFrame

\* _upgrade_node_pool up to the dry-run return: target_version is required
\* and nothing is read
UpgradeNodePoolDecide ==
    /\ tool.pc = "body" /\ tool.name = "upgrade_node_pool"
    /\ tool' =
         IF DryRun(tool.dry_run)
         THEN [ToolReturn("dry_run") EXCEPT !.target = tool.target_version.text]
         ELSE [tool EXCEPT !.pc = "mutate",
                           !.target = tool.target_version.text]
    /\ ToolFrame

\* _cycle_node_pool, from get_node_pool to the dry-run return
CycleNodePoolDecide ==
    /\ tool.pc = "body" /\ tool.name = "cycle_node_pool"
    /\ tool' =
         IF tool.read_fails THEN ToolReturn("error_text")
         ELSE IF DryRun(tool.dry_run) THEN ToolReturn("dry_run")
         ELSE [tool EXCEPT !.pc = "mutate"]
    /\ ToolFrame

\* the mutating client method is called; it returns a work request or raises
ToolMutate ==
    /\ tool.pc = "mutate"
    /\ tool' = [tool EXCEPT
                  !.pc = "done",
                  !.mutations = Append(@, <<MutatingCall(tool.name),
                                            tool.target>>),
                  !.status = IF tool.write_fails THEN "error_text"
                             ELSE "initiated"]
    /\ ToolFrame

ToolNext ==
    \/ ToolGetClient
    \/ UpgradeClusterDecide
    \/ UpgradeNodePoolDecide
    \/ CycleNodePoolDecide
    \/ ToolMutate

ToolSpec == ToolInit /\ [][ToolNext]_vars

\* ------------------------------- OKE version report (mcp_server.py)
\* _get_oke_version_report: one process_region call per configured region
\* on a ThreadPoolExecutor of its own, collected with as_completed.

\* most regions that meta.yaml configures for the project and stage
MaxRegions == 3

\* the pool is never larger than this
ReportWorkerCap == 8

\* a cluster as the report counts it: the length of its node pool list (0
\* also when list_node_pools raised) and whether available_upgrades is
\* non-empty
ClusterData(node_pools, available_upgrades) ==
    [node_pools |-> node_pools, available_upgrades |-> available_upgrades]

\* what process_region returns for a region: {"error": ...} (no client, or
\* list_oke_clusters raised), or region_data with its list of clusters
RegionError == [error |-> TRUE, clusters |-> <<>>]

RegionData(clusters) == [error |-> FALSE, clusters |-> clusters]

RegionOutcomes ==
    {RegionError, RegionData(<<>>),
     RegionData(<<ClusterData(2, TRUE)>>),
     RegionData(<<ClusterData(0, TRUE), ClusterData(1, FALSE)>>)}

\* the three counters after the loop over region_data["clusters"]
RECURSIVE AddClusters(_, _)
AddClusters(summary, clusters) ==
    IF clusters = <<>> THEN summary
    ELSE LET cluster_data == Head(clusters) IN
         AddClusters(
             [total_clusters |-> summary.total_clusters + 1,
              total_node_pools |->
                  summary.total_node_pools + cluster_data.node_pools,
              clusters_needing_upgrade |->
                  summary.clusters_needing_upgrade
                      + (IF cluster_data.available_upgrades THEN 1 ELSE 0)],
             Tail(clusters))

EmptySummary ==
    [total_clusters |-> 0, clusters_needing_upgrade |-> 0,
     total_node_pools |-> 0]

\* `if "error" not in region_data:` the summary is updated
UpdateSummary(summary, region_data) ==
    IF region_data.error THEN summary
    ELSE AddClusters(summary, region_data.clusters)

\* min(len(region_compartments), 8)
ReportWorkers(n) == Min(n, ReportWorkerCap)

\* a call: load_region_compartments raises, or returns n regions, and what
\* process_region will return for each of them
ReportInit ==
    /\ PARALLEL_DISABLED \in BOOLEAN
    /\ call = NoCall /\ pc = "idle" /\ i = 0 /\ st = <<>> /\ fut = <<>>
    /\ order = <<>> /\ results = EmptyDict /\ ret = NoReturn /\ exc = None
    /\ pool = "none" /\ actual_workers = 0 /\ lock = 0 /\ invoked = <<>>
    /\ wc = NoWorkerCountCall /\ sess = NoSession /\ tool = NoTool
    /\ \E n \in 0..MaxRegions, load_fails \in BOOLEAN :
       \E data \in [1..n -> RegionOutcomes] :
         report = [n |-> n, load_fails |-> load_fails, data |-> data,
                   pc |-> "load", st |-> [r \in 1..n |-> "new"],
                   max_workers |-> 0, regions |-> <<>>,
                   summary |-> EmptySummary, status |-> "none"]

ReportFrame ==
    UNCHANGED <<PARALLEL_DISABLED, call, pc, i, st, fut, order, results, ret,
                exc, pool, actual_workers, lock, wc, invoked, sess, tool>>

\* load_region_compartments, and the empty report
ReportLoad ==
    /\ report.pc = "load"
    /\ report' = IF report.load_fails
                 THEN [report EXCEPT !.pc = "done", !.status = "error_text"]
                 ELSE [report EXCEPT !.pc = "pool"]
    /\ ReportFrame

\* ThreadPoolExecutor(max_workers=min(len(region_compartments), 8)), which
\* raises ValueError for max_workers <= 0 (the ValueError leaves
\* _get_oke_version_report and call_tool answers "Error: ..."), then one
\* submit per region
ReportSubmit ==
    /\ report.pc = "pool"
    /\ LET max_workers == ReportWorkers(report.n) IN
       report' = IF max_workers <= 0
                 THEN [report EXCEPT !.pc = "done", !.status = "error_text"]
                 ELSE [report EXCEPT !.pc = "collect",
                                     !.max_workers = max_workers,
                                     !.st = [r \in 1..report.n |-> "queued"]]
    /\ ReportFrame

\* a free worker takes process_region for region r
ProcessRegionStart(r) ==
    /\ report.pc = "collect" /\ report.st[r] = "queued"
    /\ Cardinality({q \in 1..report.n : report.st[q] = "running"})
           < report.max_workers
    /\ report' = [report EXCEPT !.st[r] = "running"]
    /\ ReportFrame

\* process_region returns for region r
ProcessRegionFinish(r) ==
    /\ report.pc = "collect" /\ report.st[r] = "running"
    /\ report' = [report EXCEPT !.st[r] = "finished"]
    /\ ReportFrame

\* as_completed yields the future of region r: the entry is stored and the
\* summary updated
ReportCollect(r) ==
    /\ report.pc = "collect" /\ report.st[r] = "finished"
    /\ report' = [report EXCEPT
                    !.st[r] = "collected",
                    !.regions = (r :> report.data[r]) @@ @,
                    !.summary = UpdateSummary(@, report.data[r])]
    /\ ReportFrame

\* as_completed is exhausted, the pool is shut down, the report returned
ReportReturn ==
    /\ report.pc = "collect"
    /\ \A r \in 1..report.n : report.st[r] = "collected"
    /\ report' = [report EXCEPT !.pc = "done", !.status = "report"]
    /\ ReportFrame

ReportNext ==
    \/ ReportLoad
    \/ ReportSubmit
    \/ \E r \in 1..report.n : ProcessRegionStart(r)
    \/ \E r \in 1..report.n : ProcessRegionFinish(r)
    \/ \E r \in 1..report.n : ReportCollect(r)
    \/ ReportReturn

ReportSpec == ReportInit /\ [][ReportNext]_vars

\* ------------------------------------------------------------ properties
Positions == 1..call.n
Parallel == pool # "none"
Succeeds(j) == UnitKind(call, j) \in {"ok", "none"}
Fails(j) == UnitKind(call, j) = "exc"

\* what the unit at position j does when invoked, as a ParallelResult body
ExpectedSuccess(j) == ~Invoke(UnitKind(call, j), UnitId(call, j)).raised
ExpectedValue(j) ==
    LET r == Invoke(UnitKind(call, j), UnitId(call, j)) IN
    IF r.raised THEN None ELSE r.value
ExpectedError(j) ==
    LET r == Invoke(UnitKind(call, j), UnitId(call, j)) IN
    IF r.raised THEN r.value ELSE None

CarriesOutcome(e, j) ==
    /\ e.success = ExpectedSuccess(j)
    /\ e.result = ExpectedValue(j)
    /\ e.error = ExpectedError(j)

\* C1: with fail_fast off, a dispatch call that returns has exactly one
\* result entry per input task/item: the returned map has the input keys as
\* its domain, the returned list has one position per input position.
C1_Cardinality ==
    (pc = "returned" /\ ~call.fail_fast) =>
        CASE call.fn = "regions" ->
                 /\ DOMAIN ret = {RegionKey(j) : j \in Positions}
                 /\ Cardinality(DOMAIN ret) = call.n
          [] call.fn \in {"tasks", "map"} -> DOMAIN ret = Positions
          [] OTHER -> TRUE

C1_Witness ==
    /\ pc = "returned" /\ ~call.fail_fast /\ Parallel
    /\ call.fn = "regions" /\ call.n >= 3
    /\ \E j \in Positions : Fails(j)
    /\ Cardinality(DOMAIN ret) = call.n

\* C2: run_parallel_tasks in parallel mode returns, at every index, the
\* outcome of the task at that index, whatever the collection order was.
C2_TasksOrder ==
    (pc = "returned" /\ call.fn = "tasks" /\ Parallel) =>
        \A j \in Positions : CarriesOutcome(ret[j], j)

C2_Witness ==
    /\ pc = "returned" /\ call.fn = "tasks" /\ Parallel /\ call.n >= 3
    /\ order[Len(order)] = 1 /\ order[1] = call.n
    /\ CarriesOutcome(ret[1], 1)

\* C3: run_parallel_map in parallel mode returns at index i the triple
\* (items[i], func(items[i]), None) whenever func succeeds on items[i],
\* whatever the collection order was.
C3_MapOrder ==
    (pc = "returned" /\ call.fn = "map" /\ Parallel) =>
        \A j \in Positions :
            Succeeds(j) =>
                ret[j] = <<call.items[j], ExpectedValue(j), None>>

C3_Witness ==
    /\ pc = "returned" /\ call.fn = "map" /\ Parallel /\ call.n >= 3
    /\ order[Len(order)] = 1 /\ order[1] = call.n
    /\ call.items[1] # call.items[call.n]
    /\ \A j \in Positions : UnitKind(call, j) = "ok"
    /\ ret[1] = <<call.items[1], Val(call.items[1]), None>>

\* C4: run_parallel_regions with fail_fast off: the entry of a key whose
\* task raised has success false and that task's error, and the entry of
\* every key whose task returned has success true and that task's value.
C4_RegionIsolation ==
    (pc = "returned" /\ call.fn = "regions" /\ ~call.fail_fast) =>
        \A j \in Positions :
            /\ Fails(j) =>
                 /\ ret[RegionKey(j)].success = FALSE
                 /\ ret[RegionKey(j)].error = Err(j)
            /\ Succeeds(j) =>
                 /\ ret[RegionKey(j)].success = TRUE
                 /\ ret[RegionKey(j)].result = ExpectedValue(j)

C4_Witness ==
    /\ pc = "returned" /\ call.fn = "regions" /\ ~call.fail_fast /\ Parallel
    /\ call.n >= 3
    /\ \E k \in Positions :
         /\ Fails(k) /\ order[1] = k
         /\ ret[RegionKey(k)].error = Err(k)
         /\ \A j \in Positions \ {k} :
              UnitKind(call, j) = "ok" /\ ret[RegionKey(j)].result = Val(j)

\* C5: run_parallel_tasks: the entry of a task that raised has success
\* false and that task's error; every other entry has success true and the
\* value of its own task.
C5_TaskIsolation ==
    (pc = "returned" /\ call.fn = "tasks") =>
        \A j \in Positions :
            /\ Fails(j) =>
                 /\ ret[j].success = FALSE
                 /\ ret[j].error = Err(j)
            /\ Succeeds(j) =>
                 /\ ret[j].success = TRUE
                 /\ ret[j].result = ExpectedValue(j)

C5_Witness ==
    /\ pc = "returned" /\ call.fn = "tasks" /\ Parallel /\ call.n >= 3
    /\ \E k \in Positions :
         /\ Fails(k) /\ order[1] = k
         /\ ret[k].success = FALSE /\ ret[k].error = Err(k)
         /\ \A j \in Positions \ {k} :
              UnitKind(call, j) = "ok" /\ ret[j].result = Val(j)

\* C6: run_parallel_map, sequential and parallel branch: the triple of an
\* item on which func raised is (item, None, error), and every other triple
\* is (item, func(item), None).
C6_MapIsolation ==
    (pc = "returned" /\ call.fn = "map") =>
        \A j \in Positions :
            /\ Fails(j) =>
                 ret[j] = <<call.items[j], None, Err(call.items[j])>>
            /\ Succeeds(j) =>
                 ret[j] = <<call.items[j], ExpectedValue(j), None>>

C6_Witness ==
    /\ pc = "returned" /\ call.fn = "map" /\ Parallel /\ call.n >= 3
    /\ \E k \in Positions :
         /\ Fails(k) /\ order[1] = k
         /\ ret[k] = <<call.items[k], None, Err(call.items[k])>>
         /\ \E j \in Positions : Succeeds(j)

\* C7: no exception (instance of Exception) propagates out of a dispatch
\* call, whatever the tasks, names, name function and max_workers, except
\* out of run_parallel_regions called with fail_fast=True.
C7_NoEscape ==
    (pc = "raised" /\ IsException(exc)) =>
        (call.fn = "regions" /\ call.fail_fast)

\* C8: during a parallel dispatch over N tasks, the number of tasks in
\* flight is at most min(max_workers, N).
C8_BoundedInFlight ==
    Parallel => Cardinality(InFlight) <= Min(call.max_workers, call.n)

C8_Witness ==
    /\ pool = "open" /\ call.max_workers < call.n
    /\ Cardinality(InFlight) = call.max_workers
    /\ Queued # {}

\* C9: a dispatch call with max_workers <= 1 creates no pool and has at most
\* one task in flight, run by the calling thread in its sequential loop.
C9_SequentialWhenOneWorker ==
    (call.fn # "none" /\ call.max_workers <= 1) =>
        /\ pool = "none"
        /\ Cardinality(InFlight) <= 1
        /\ InFlight # {} => (pc = "seq" /\ InFlight = {i})
        /\ \A j \in Positions : j < i => st[j] = "done"
        /\ \A j \in Positions : j > i => st[j] = "new"

C9_Witness ==
    /\ ~PARALLEL_DISABLED /\ call.fn # "none" /\ call.max_workers = 1
    /\ pc = "seq" /\ i >= 2 /\ InFlight = {i} /\ st[1] = "done"

\* C11: with fail_fast off, whatever max_workers is and however the parallel
\* run interleaves, a call that returns returns what the sequential branch
\* (max_workers = 1) returns for the same tasks: same keys or positions, same
\* success flags, same values and errors.
C11_SequentialEquivalence ==
    (pc = "returned" /\ ~call.fail_fast /\ call.fn # "none") =>
        ret = SeqResult(call)

C11_Witness ==
    /\ pc = "returned" /\ ~call.fail_fast /\ call.fn = "tasks" /\ Parallel
    /\ call.n >= 3 /\ call.max_workers > 1
    /\ order[1] = call.n /\ order[Len(order)] = 1
    /\ Fails(1) /\ UnitKind(call, 2) = "ok"
    /\ ret = SeqResult(call)

\* C12: run_parallel_regions called with fail_fast=True over a task map that
\* contains a failing task does not return normally but re-raises the
\* failure, in the sequential mode as in the parallel mode.
C12_FailFastEveryMode ==
    (call.fn = "regions" /\ call.fail_fast /\ \E j \in Positions : Fails(j))
        => pc # "returned"

FailFastTriggered ==
    /\ call.fn = "regions" /\ call.fail_fast /\ Parallel
    /\ pc \in {"unwind", "raised"} /\ IsException(exc)

\* C13: in parallel mode with fail_fast=True the exception leaving
\* run_parallel_regions is the error raised by one of the failing tasks,
\* unchanged, and from the moment it is raised the result map holds a failed
\* ParallelResult with that error under that task's key.
C13_FailFastSameError ==
    FailFastTriggered =>
        \E j \in Positions :
            /\ Fails(j) /\ exc = Err(j)
            /\ RegionKey(j) \in DOMAIN results
            /\ results[RegionKey(j)] =
                   [key |-> RegionKey(j), success |-> FALSE,
                    result |-> None, error |-> Err(j)]

C13_Witness ==
    /\ FailFastTriggered /\ pc = "raised" /\ call.n >= 2
    /\ \E j \in Positions :
         /\ exc = Err(j) /\ results[RegionKey(j)].error = Err(j)
         /\ \E k \in Positions : Succeeds(k)

\* C14: once fail_fast has triggered in run_parallel_regions no further
\* result is collected (the result map and the collection order stay as they
\* are), and no submitted sibling is cancelled: when the exception reaches
\* the caller every submitted task has run to completion with its own outcome.
C14_SiblingsFinishUncollected ==
    /\ []((FailFastTriggered /\ pc = "raised") =>
            \A j \in Positions :
                /\ st[j] = "done"
                /\ fut[j] = SafeExecute(UnitKind(call, j), UnitId(call, j)))
    /\ [][(FailFastTriggered /\ pc = "unwind") =>
            (results' = results /\ order' = order)]_vars

C14_Witness ==
    /\ FailFastTriggered /\ pc = "raised" /\ call.n >= 3
    /\ Len(order) = 1 /\ Cardinality(DOMAIN results) = 1
    /\ \A j \in Positions : st[j] = "done"
    /\ \E j \in Positions : j # order[1] /\ fut[j] = Returned(<<TRUE, Val(j), None>>)

\* C15: when a dispatch call has returned normally every task of the call
\* has finished, none is queued or running, and the pool the call created
\* (if any) has been shut down: no open pool outlives the call.
C15_ReturnedMeansFinished ==
    pc = "returned" =>
        /\ \A j \in Positions : st[j] = "done"
        /\ InFlight = {} /\ Queued = {}
        /\ pool \in {"none", "shutdown"}
        /\ (actual_workers > 0) => pool = "shutdown"

C15_Witness ==
    /\ pc = "returned" /\ pool = "shutdown" /\ actual_workers >= 2
    /\ call.n >= 3 /\ \A j \in Positions : st[j] = "done"

\* C16: a dispatch call with empty input creates no pool, runs nothing, does
\* not raise, and returns the empty map (regions) or the empty list (tasks,
\* map), for every max_workers and either value of PARALLEL_DISABLED.
C16_EmptyInput ==
    (call.fn # "none" /\ call.n = 0) =>
        /\ pool = "none" /\ actual_workers = 0
        /\ pc \in {"seq", "returned"}
        /\ exc = None
        /\ pc = "returned" =>
             ret = IF call.fn = "regions" THEN EmptyDict ELSE <<>>

C16_Witness ==
    /\ call.fn = "tasks" /\ call.n = 0 /\ call.max_workers < 0
    /\ ~PARALLEL_DISABLED /\ pc = "returned" /\ ret = <<>> /\ pool = "none"

\* positions whose entry has been stored so far, and that entry
Stored ==
    {j \in Positions :
        IF call.fn = "regions" THEN RegionKey(j) \in DOMAIN results
        ELSE j \in DOMAIN results}
EntryOf(j) ==
    IF call.fn = "regions" THEN results[RegionKey(j)] ELSE results[j]

\* C17 as claimed: every ParallelResult of run_parallel_regions and
\* run_parallel_tasks has exactly one of result / error populated: result
\* and not error when success is true, error and not result when it is false.
C17_ExactlyOnePopulated ==
    call.fn \in {"regions", "tasks"} =>
        \A j \in Stored :
            LET e == EntryOf(j) IN
            /\ e.success => (e.result # None /\ e.error = None)
            /\ ~e.success => (e.error # None /\ e.result = None)

\* C17 amended: when success is false error is populated and result is None;
\* when success is true error is None and result is what the task returned,
\* which is None exactly when the task itself returned None.
C17_AtMostOnePopulated ==
    call.fn \in {"regions", "tasks"} =>
        \A j \in Stored :
            LET e == EntryOf(j) IN
            /\ ~e.success => (e.error # None /\ e.result = None)
            /\ e.success => e.error = None
            /\ e.success => (e.result = None <=> UnitKind(call, j) = "none")

C17_Witness ==
    /\ call.fn = "regions" /\ pc = "returned" /\ Parallel /\ call.n >= 3
    /\ \E j, k, l \in Stored :
         /\ EntryOf(j).success /\ EntryOf(j).result = None
         /\ EntryOf(j).error = None /\ UnitKind(call, j) = "none"
         /\ EntryOf(k).success /\ EntryOf(k).result = Val(k)
         /\ ~EntryOf(l).success /\ EntryOf(l).error = Err(l)

\* C18 as claimed: in every triple of run_parallel_map, result is None if
\* and only if error is not None.
C18_ResultNoneIffError ==
    call.fn = "map" =>
        \A j \in Stored : (EntryOf(j)[2] = None) <=> (EntryOf(j)[3] # None)

\* C18 amended: error is not None exactly when func raised on the item, and
\* then result is None; when func returned, error is None and result is the
\* returned value, which is None when func itself returned None.
C18_ErrorImpliesNoResult ==
    call.fn = "map" =>
        \A j \in Stored :
            LET t == EntryOf(j) IN
            /\ (t[3] # None) <=> Fails(j)
            /\ t[3] # None => t[2] = None
            /\ t[3] = None => (t[2] = None <=> UnitKind(call, j) = "none")

C18_Witness ==
    /\ call.fn = "map" /\ pc = "returned" /\ Parallel /\ call.n >= 2
    /\ \E j, k \in Stored :
         /\ UnitKind(call, j) = "none"
         /\ ret[j] = <<call.items[j], None, None>>
         /\ Fails(k) /\ ret[k] = <<call.items[k], None, Err(call.items[k])>>

\* C19 as claimed: the key of result i of run_parallel_tasks is
\* task_names[i] when task_names is provided and 'task_i' otherwise, for
\* every task_names argument.
C19_KeyFromNames ==
    call.fn = "tasks" =>
        \A j \in Stored :
            IF call.names_given
            THEN j <= Len(call.task_names)
                 /\ EntryOf(j).key = call.task_names[j]
            ELSE EntryOf(j).key = <<"task_", j - 1>>

\* C19 amended: the key of result i is task_names[i] when task_names is a
\* non-empty list and 'task_i' when task_names is None or the empty list.
C19_KeyFromNonEmptyNames ==
    call.fn = "tasks" =>
        \A j \in Stored :
            IF call.names_given /\ Len(call.task_names) > 0
            THEN j <= Len(call.task_names)
                 /\ EntryOf(j).key = call.task_names[j]
            ELSE EntryOf(j).key = <<"task_", j - 1>>

C19_Witness ==
    /\ call.fn = "tasks" /\ pc = "returned" /\ Parallel /\ call.n >= 3
    /\ call.names_given /\ Len(call.task_names) = call.n
    /\ order[1] = call.n
    /\ \A j \in Positions : ret[j].key = <<"name", j>>

\* C20: the item_name_func argument of run_parallel_map does not influence
\* the outcome: the call ends as it does without a name function, that is,
\* it returns the triples func alone determines, in input order, and it
\* raises only an exception that func itself let escape.
C20_NameFuncNoInfluence ==
    call.fn = "map" =>
        /\ pc = "returned" => ret = SeqResult(call)
        /\ pc \in {"unwind", "raised"} =>
             \E j \in Positions :
                 /\ UnitKind(call, j) = "base"
                 /\ exc = BaseErr(call.items[j])

SequentialOnly ==
    /\ pool = "none"
    /\ Cardinality(InFlight) <= 1
    /\ InFlight # {} => pc = "seq"

\* C10: while PARALLEL_DISABLED is true every dispatch call runs
\* sequentially whatever max_workers is (no pool, at most one task in
\* flight), and no step of a dispatch call changes the flag.
C10_DisabledFlag ==
    /\ [](PARALLEL_DISABLED => SequentialOnly)
    /\ [][PARALLEL_DISABLED' = PARALLEL_DISABLED]_vars

C10_Witness ==
    /\ PARALLEL_DISABLED /\ call.fn # "none" /\ call.max_workers > 1
    /\ pc = "seq" /\ i >= 2 /\ InFlight = {i} /\ st[1] = "done"

\* ------------------------------------------- worker-count policy claims
WorkerCountReturned == wc.pc = "done" /\ ~wc.out.raised
WorkerCount == wc.out.value[2]

\* C21: get_worker_count with an override given returns min(override,
\* item_count) for every level: the count is at most the override, at most
\* item_count, and is one of the two; in particular it never exceeds
\* item_count.
C21_OverrideClamped ==
    (wc.pc = "done" /\ wc.override # None) =>
        /\ WorkerCountReturned
        /\ wc.out.value[1] = "int"
        /\ WorkerCount <= wc.item_count
        /\ WorkerCount <= wc.override[2]
        /\ WorkerCount \in {wc.override[2], wc.item_count}

C21_Witness ==
    /\ wc.pc = "done" /\ wc.level = "region"
    /\ wc.override = <<"int", 10>> /\ wc.item_count = 3
    /\ wc.out = [raised |-> FALSE, value |-> <<"int", 3>>]

\* C22: get_worker_count without override returns min(default(level),
\* item_count) with the defaults region = 4, cluster = 6, instance = 10, for
\* every item_count.
C22_LevelDefaults ==
    (wc.pc = "done" /\ wc.override = None
        /\ wc.level \in {"region", "cluster", "instance"}) =>
        LET default == CASE wc.level = "region" -> 4
                         [] wc.level = "cluster" -> 6
                         [] wc.level = "instance" -> 10
        IN /\ WorkerCountReturned
           /\ WorkerCount = IF wc.item_count < default THEN wc.item_count
                            ELSE default

C22_Witness ==
    /\ wc.pc = "done" /\ wc.override = None /\ wc.level = "cluster"
    /\ wc.item_count = 12
    /\ wc.out = [raised |-> FALSE, value |-> <<"int", 6>>]

\* C23: get_worker_count with a level that is none of region, cluster,
\* instance and without override does not fail: it returns min(10,
\* item_count), the instance default clamped to the item count.
C23_UnknownLevelFallback ==
    (wc.pc = "done" /\ wc.override = None
        /\ wc.level \notin {"region", "cluster", "instance"}) =>
        /\ ~wc.out.raised
        /\ wc.out.value = <<"int", IF wc.item_count < 10 THEN wc.item_count
                                   ELSE 10>>

C23_Witness ==
    /\ wc.pc = "done" /\ wc.override = None /\ wc.level = "unknown"
    /\ wc.item_count = 12
    /\ wc.out = [raised |-> FALSE, value |-> <<"int", 10>>]

\* no unit of the call raises a BaseException that is not an Exception
NoBaseException == \A j \in Positions : UnitKind(call, j) # "base"

\* C24: a dispatch call with max_workers <= 0 and non-empty input does not
\* raise: it creates no pool, runs as with one worker, and when it has
\* returned every task has run and the result is the complete sequential
\* result.
C24_NonPositiveWorkers ==
    (call.fn # "none" /\ call.max_workers <= 0 /\ call.n > 0
        /\ NoBaseException) =>
        /\ pool = "none"
        /\ pc # "raised"
        /\ pc = "returned" =>
             /\ \A j \in Positions : st[j] = "done"
             /\ ret = SeqResult(call)

\* C25: the dispatcher holds no lock, so in a parallel dispatch whose tasks
\* each take and release the exclusive OCI config lock no deadlock occurs:
\* at most one task holds the lock at a time, every task that was submitted
\* eventually holds the lock and eventually finishes, and the dispatch call
\* eventually ends.
C25_NoDeadlockWithConfigLock ==
    /\ [](\A j, k \in DOMAIN st :
            (st[j] = "locked" /\ st[k] = "locked") => (j = k /\ lock = j))
    /\ \A j \in 1..MaxTasks :
         (j \in DOMAIN st /\ st[j] = "queued")
             ~> (j \in DOMAIN st /\ st[j] = "locked")
    /\ \A j \in 1..MaxTasks :
         (j \in DOMAIN st /\ st[j] = "locked")
             ~> (j \in DOMAIN st /\ st[j] = "done")
    /\ (pool = "open") ~> (pc \in {"returned", "raised"})

C25_Witness ==
    /\ pool = "open" /\ call.n >= 3 /\ actual_workers >= 2
    /\ \E j, k, l \in Positions :
         /\ lock = j /\ st[j] = "locked"
         /\ st[k] = "running"
         /\ st[l] = "done"

\* C26: the dispatcher never retries and never skips: within one dispatch
\* call every unit is called at most once, in every mode, and when the call
\* has ended with fail_fast off every unit has been called exactly once,
\* failing units included.
C26_InvokedOnce ==
    call.fn # "none" =>
        \A j \in Positions :
            /\ invoked[j] <= 1
            /\ (pc \in {"returned", "raised"} /\ ~call.fail_fast
                    /\ NoBaseException) => invoked[j] = 1

\* C27: the map run_parallel_regions returns with fail_fast off has exactly
\* the input keys as its domain, and the entry under key k has key field k
\* and the success flag, value and error of the task supplied for k, in the
\* sequential and in the parallel mode.
C27_RegionMapKeyed ==
    (pc = "returned" /\ call.fn = "regions" /\ ~call.fail_fast) =>
        /\ DOMAIN ret = {RegionKey(j) : j \in Positions}
        /\ \A j \in Positions :
             /\ ret[RegionKey(j)].key = RegionKey(j)
             /\ CarriesOutcome(ret[RegionKey(j)], j)

C27_Witness ==
    /\ pc = "returned" /\ call.fn = "regions" /\ ~call.fail_fast /\ Parallel
    /\ call.n >= 3 /\ order[1] = call.n /\ order[call.n] = 1
    /\ Fails(1) /\ UnitKind(call, call.n) = "ok"
    /\ ret[RegionKey(call.n)] =
           [key |-> RegionKey(call.n), success |-> TRUE,
            result |-> Val(call.n), error |-> None]
    /\ ret[RegionKey(1)].key = RegionKey(1)
    /\ ret[RegionKey(1)].error = Err(1)

\* C29: in parallel mode with fail_fast=True the error run_parallel_regions
\* raises is the error of the first failing task in collection order: the
\* task collected last failed, its error is the one raised, and no task
\* collected before it failed. Input order plays no part: whenever a failing
\* task has finished and is not yet collected, collecting it next and
\* raising its error is a possible step, whatever its position in the input.
C29_FirstFailureInCollectionOrder ==
    /\ FailFastTriggered =>
         /\ Len(order) >= 1
         /\ Fails(order[Len(order)]) /\ exc = Err(order[Len(order)])
         /\ \A m \in 1..(Len(order) - 1) : ~Fails(order[m])
    /\ (call.fn = "regions" /\ call.fail_fast /\ pc = "collect") =>
         \A j \in Positions :
             (Fails(j) /\ st[j] = "done" /\ j \notin Collected) =>
                 ENABLED (CollectRegion(j) /\ pc' = "unwind" /\ exc' = Err(j))

C29_Witness ==
    /\ FailFastTriggered /\ pc = "raised" /\ call.n >= 3
    /\ \A j \in Positions : Fails(j)
    /\ order = <<call.n>> /\ exc = Err(call.n)

\* C30: when fail_fast makes run_parallel_regions raise in parallel mode,
\* the exception reaches the caller only after every submitted task has
\* finished: the step that hands the exception to the caller is taken only
\* when every task, queued ones included, has been run to its end, and once
\* the caller has the exception no task of the call is queued or running and
\* the pool is shut down, so nothing of the call goes on in the background.
C30_RaiseWaitsForTasks ==
    /\ []((FailFastTriggered /\ pc = "raised") =>
            /\ InFlight = {} /\ Queued = {}
            /\ pool = "shutdown"
            /\ \A j \in Positions : invoked[j] = 1 /\ st[j] = "done")
    /\ [][(FailFastTriggered /\ pc = "unwind" /\ pc' # "unwind") =>
            /\ pc' = "raised" /\ exc' = exc
            /\ \A j \in Positions : st[j] = "done" /\ st'[j] = "done"]_vars
    /\ [][(FailFastTriggered /\ pc = "raised") => pc' = "idle"]_vars

C30_Witness ==
    /\ FailFastTriggered /\ pc = "raised" /\ pool = "shutdown"
    /\ call.n >= 3 /\ actual_workers = 2 /\ order = <<1>>
    /\ \A j \in Positions : st[j] = "done" /\ invoked[j] = 1

\* C31: if every supplied task terminates, then under fair scheduling of
\* the calling thread and the worker threads every call of
\* run_parallel_regions, run_parallel_tasks and run_parallel_map ends: it
\* returns or it raises, for every max_workers value (negative, zero, one,
\* fewer than the tasks, as many as the tasks).
C31_Termination ==
    (call.fn # "none") ~> (pc \in {"returned", "raised"})

C31_Witness ==
    /\ call.fn = "map" /\ pc = "returned" /\ pool = "shutdown"
    /\ call.n >= 3 /\ actual_workers = 2 /\ call.max_workers = 2
    /\ Len(order) = call.n
    /\ \E j \in Positions : Fails(j)

\* C32: if no task fails, run_parallel_regions with fail_fast=True raises
\* nothing and returns the complete result map it returns with
\* fail_fast=False, in the sequential mode and for every completion
\* interleaving of the parallel mode.
C32_FailFastWithoutFailures ==
    (call.fn = "regions" /\ call.fail_fast /\ \A j \in Positions : Succeeds(j))
        => /\ pc \notin {"unwind", "raised"}
           /\ exc = None
           /\ pc = "returned" =>
                /\ ret = SeqResult([call EXCEPT !.fail_fast = FALSE])
                /\ DOMAIN ret = {RegionKey(j) : j \in Positions}
                /\ \A j \in Positions : ret[RegionKey(j)].success

C32_Witness ==
    /\ call.fn = "regions" /\ call.fail_fast /\ Parallel /\ pc = "returned"
    /\ call.n >= 3 /\ order[1] = call.n
    /\ \A j \in Positions : Succeeds(j)
    /\ \E j \in Positions : UnitKind(call, j) = "none"
    /\ Cardinality(DOMAIN ret) = call.n

\* ----------------------------------------------------- session claims

\* the threads that are inside the with-block of oci_config_lock
InsideLock == {t \in Callers : sess.pc[t] \in {"locked", "create", "exit"}}

\* C33: the config file lock is mutually exclusive: at any time at most one
\* thread holds it, so at most one caller of setup_session_token is inside
\* the with-block, checking or creating a session token.
C33_MutualExclusion ==
    /\ Cardinality(sess.holders) <= 1
    /\ Cardinality(InsideLock) <= 1
    /\ InsideLock \subseteq sess.holders

\* a thread is creating a token while the two others wait in flock
C33_Witness ==
    /\ \E t \in Callers :
         /\ sess.pc[t] = "create" /\ sess.holders = {t}
         /\ \A u \in Callers \ {t} : sess.pc[u] = "acquire"

\* C34: setup_session_token releases the config file lock on every exit path
\* (a valid token reused, a token created, creation returning false,
\* creation raising): a thread that has left the call holds no lock, and a
\* thread that waits in flock gets the lock - no caller that has returned
\* blocks a later one forever.
C34_LockReleasedOnEveryExit ==
    /\ [](\A t \in Callers : sess.pc[t] = "done" => t \notin sess.holders)
    /\ \A t \in Callers : (sess.pc[t] = "acquire") ~> (t \in sess.holders)

\* two threads have left, one after creation raised and one after creation
\* returned false, and the third is inside the lock
C34_Witness ==
    \E t, u, v \in Callers :
        /\ sess.pc[t] = "done" /\ sess.outcome[t] = "raise"
        /\ sess.pc[u] = "done" /\ sess.outcome[u] = "false"
        /\ sess.pc[v] = "locked" /\ sess.holders = {v}

\* every creation attempt so far returned True and left a token that
\* check_session_token_validity accepts
CreationsValidate ==
    \A t \in Callers :
        sess.outcome[t] \in CreateOutcomes =>
            /\ sess.outcome[t] = "valid"
            /\ check_session_token_validity(sess.sdk,
                                            TokenAfter("valid", NoToken))

\* C35: when threads call setup_session_token concurrently for the same
\* profile and creation leaves a token that validates,
\* create_oci_session_token is invoked at most once: every caller behind
\* the creator reuses the token, and all callers return the same profile.
C35_CreatedAtMostOnce ==
    CreationsValidate =>
        /\ sess.creates <= 1
        /\ \A t \in Callers :
             sess.outcome[t] = "valid" =>
                 \A u \in Callers \ {t} :
                     \/ sess.pc[u] \in {"idle", "acquire", "locked"}
                     \/ sess.outcome[u] = "reuse"
        /\ \A t \in Callers :
             sess.pc[t] \in {"exit", "done"} =>
                 sess.out[t] = Returned(TargetProfile)

\* all threads have returned: the first found a stale token and created a
\* new one, the two others reused it
C35_Witness ==
    /\ sess.creates = 1
    /\ \A t \in Callers : sess.pc[t] = "done"
    /\ \E t \in Callers :
         /\ sess.outcome[t] = "valid" /\ TokenTooOld(sess.checked[t].age)
         /\ \A u \in Callers \ {t} :
              sess.outcome[u] = "reuse" /\ sess.checked[u].age = 0

\* C36: setup_session_token returns the target profile when a valid token
\* is reused or creation succeeds, and "DEFAULT" exactly when
\* create_oci_session_token returns false or raises an Exception; no
\* Exception of the creation leaves the call.
C36_ReturnValue ==
    \A t \in Callers :
        sess.pc[t] \in {"exit", "done"} =>
            /\ sess.out[t] = Returned(TargetProfile)
                 <=> sess.outcome[t] \in {"reuse", "valid", "unusable"}
            /\ sess.out[t] = Returned(DEFAULT)
                 <=> sess.outcome[t] \in {"false", "raise"}
            /\ sess.out[t].raised
                 => /\ sess.outcome[t] = "interrupt"
                    /\ ~IsException(sess.out[t].value)

\* one thread fell back to DEFAULT after creation returned false, the next
\* created a token, the third reused it
C36_Witness ==
    \E t, u, v \in Callers :
        /\ sess.pc[t] = "done" /\ sess.outcome[t] = "false"
        /\ sess.out[t] = Returned(DEFAULT)
        /\ sess.pc[u] = "done" /\ sess.outcome[u] = "valid"
        /\ sess.out[u] = Returned(TargetProfile)
        /\ sess.pc[v] = "done" /\ sess.outcome[v] = "reuse"
        /\ sess.out[v] = Returned(TargetProfile)

\* the token file a thread found inside the lock was older than 50 minutes
FoundStale(t) ==
    /\ sess.pc[t] \in {"create", "exit", "done"}
    /\ sess.checked[t].exists
    /\ sess.checked[t].age > 50 * 60

\* C37: a session token whose file is older than 50 minutes (age > 3000 s)
\* is never reused: check_session_token_validity returns False for it and
\* setup_session_token goes on to create a new token.
C37_StaleTokenNotReused ==
    /\ \A token \in Tokens :
         (token.exists /\ token.age > 3000) =>
             ~check_session_token_validity(sess.sdk, token)
    /\ \A t \in Callers :
         FoundStale(t) =>
             /\ sess.outcome[t] # "reuse"
             /\ sess.pc[t] = "create" \/ sess.outcome[t] \in CreateOutcomes

\* a thread found an otherwise sound token of 3001 s and created a new one,
\* and the next thread reused that one
C37_Witness ==
    \E t, u \in Callers :
        /\ sess.sdk /\ FoundStale(t)
        /\ sess.checked[t] = Token(3001, TRUE, TRUE)
        /\ sess.outcome[t] = "valid" /\ sess.pc[t] = "done"
        /\ sess.outcome[u] = "reuse" /\ sess.pc[u] = "done"

\* --------------------------------------------------- MCP tool claims

\* the replies that report an error: a plain error text, or status "error"
ErrorStatus == {"error", "error_text"}

\* C38 as stated: a mutating tool called with dry_run=true never calls its
\* mutating client method, and the status it returns is "dry_run" or an
\* error, never "initiated".
C38_DryRunStatus ==
    tool.dry_run = "true" =>
        /\ tool.mutations = <<>>
        /\ tool.status # "initiated"
        /\ tool.pc = "done" => tool.status \in {"dry_run"} \cup ErrorStatus

\* C38, amended: a mutating tool called with dry_run=true never calls its
\* mutating client method and never returns "initiated"; it returns
\* "dry_run", an error or, for _upgrade_oke_cluster without a target version
\* on a cluster without available upgrades, "no_upgrade_needed".
C38_DryRunNeverMutates ==
    tool.dry_run = "true" =>
        /\ tool.mutations = <<>>
        /\ tool.pc # "mutate"
        /\ tool.status # "initiated"
        /\ tool.pc = "done" =>
             \/ tool.status \in {"dry_run"} \cup ErrorStatus
             \/ /\ tool.status = "no_upgrade_needed"
                /\ tool.name = "upgrade_oke_cluster"
                /\ NoTarget(tool.target_version)
                /\ tool.available_upgrades = {}

\* a dry run of _upgrade_oke_cluster for an available version has returned
C38_Witness ==
    /\ tool.name = "upgrade_oke_cluster" /\ tool.dry_run = "true"
    /\ tool.pc = "done" /\ tool.status = "dry_run"
    /\ tool.target_version.given /\ tool.target = <<1, 0>>
    /\ tool.mutations = <<>>

\* the cluster could be read
ClusterRead == ~tool.client_error /\ ~tool.read_fails

RECURSIVE TotalsOver(_)
TotalsOver(k) ==
    IF k = 0 THEN EmptySummary
    ELSE UpdateSummary(TotalsOver(k - 1), report.data[k])

\* C40: for every completion order of the per-region workers and every
\* number of configured regions, the report of _get_oke_version_report has
\* exactly one entry per configured region, and its totals are the sums over
\* the regions that returned no error, whatever the interleaving was.
C40_ReportAggregates ==
    (report.pc = "done" /\ ~report.load_fails) =>
        /\ report.status = "report"
        /\ DOMAIN report.regions = 1..report.n
        /\ \A r \in 1..report.n : report.regions[r] = report.data[r]
        /\ report.summary = TotalsOver(report.n)

\* the same for a configuration with at least one region
ReportAggregatesNonEmpty == report.n >= 1 => C40_ReportAggregates

TypeOK ==
    /\ PARALLEL_DISABLED \in BOOLEAN
    /\ pc \in {"idle", "seq", "submit", "collect", "unwind", "returned", "raised"}
    /\ pool \in {"none", "open", "shutdown"}
    /\ \A j \in DOMAIN st : st[j] \in {"new", "queued", "running", "done"}
====
